---- MODULE Spec2Model ----
(***************************************************************************)
(* LuoguScraper: the record fetcher (get_records and its driver loop in    *)
(* luogu_scraper.py) and the report builder (analyze_to_excel in           *)
(* analyze_records.py), modelled as state machines.                        *)
(***************************************************************************)
EXTENDS Integers, Sequences, FiniteSets, TLC

(* ---------------------------------------------------------------------- *)
(* Bounds of the model                                                     *)
(* ---------------------------------------------------------------------- *)
\* longest submission list a judge account holds
MaxEntries == 2
\* largest page size the judge serves
MaxPageSize == 2
\* latest submission timestamp
MaxTime == 2

(* ---------------------------------------------------------------------- *)
(* Program constants                                                       *)
(* ---------------------------------------------------------------------- *)
\* status code of an Accepted submission (luogu_scraper.py:165)
AC == 12
\* "code" of a standard API object (luogu_scraper.py:128)
ApiOk == 200
\* record.get("status") of an entry without a status: None
NoStatus == -1
\* min_timestamp while no cutoff applies: None
NoTimestamp == -1
\* seconds in a calendar day, on the model's time scale
DayLen == 2

(* ---------------------------------------------------------------------- *)
(* Characters and strings: a string is a sequence of one-character strings *)
(* ---------------------------------------------------------------------- *)
Digits == <<"0", "1", "2", "3", "4", "5", "6", "7", "8", "9">>

\* str(n) of a one-digit number
DigitStr(n) == Digits[n + 1]

\* code point order of the characters a time string is made of
CharOrd(c) == IF c = " " THEN 0 ELSE CHOOSE i \in 1..10 : Digits[i] = c

RECURSIVE StrLess(_, _)
\* s < t of two Python strings: lexicographic by code point
StrLess(s, t) ==
    IF t = <<>> THEN FALSE
    ELSE IF s = <<>> THEN TRUE
    ELSE IF CharOrd(Head(s)) # CharOrd(Head(t))
         THEN CharOrd(Head(s)) < CharOrd(Head(t))
         ELSE StrLess(Tail(s), Tail(t))

(* ---------------------------------------------------------------------- *)
(* The judge: what the remote endpoint holds and serves                    *)
(* ---------------------------------------------------------------------- *)
\* the "problem" object of a submission entry: pid and title
Problems == { [pid |-> <<"P1001">>, title |-> <<"a", "+", "%", "25", "\"", ")">>] }

Statuses == {AC, AC + 2, NoStatus}

Times == 1..MaxTime

\* one element of records.result
Entries == [status : Statuses, submitTime : Times, problem : Problems]

\* data_dict.get("code") of an object without a "code" key: None
NoCode == -1

\* The decoded object of one response.  A dict carries an optional "code", the
\* record container either under "currentData" (hasCD) or at top level, and in
\* it records.result, records.count and records.perPage.
PageObject(code, hasCD, result, count, perPage) ==
    [isDict |-> TRUE, code |-> code, hasCD |-> hasCD, result |-> result,
     count |-> count, perPage |-> perPage]

\* a JSON document that is not an object, such as []
NonDict == [isDict |-> FALSE, code |-> NoCode, hasCD |-> FALSE, result |-> <<>>,
            count |-> 0, perPage |-> 0]

(* ---------------------------------------------------------------------- *)
(* JSON text.  A text is a sequence of tokens: the structural characters,  *)
(* key names and numbers are one token each, the characters of a string    *)
(* value one token each.                                                   *)
(* ---------------------------------------------------------------------- *)
NumStr(n) ==
    CASE n = AC -> "12"
      [] n = AC + 2 -> "14"
      [] n = ApiOk -> "200"
      [] n = ApiOk + 300 -> "500"
      [] OTHER -> DigitStr(n)

Numbers == (0..9) \cup {AC, AC + 2, ApiOk, ApiOk + 300}

RECURSIVE DumpStrBody(_)
DumpStrBody(s) ==
    IF s = <<>> THEN <<>>
    ELSE (IF Head(s) \in {"\"", "\\"} THEN <<"\\", Head(s)>> ELSE <<Head(s)>>)
         \o DumpStrBody(Tail(s))

\* json.dumps of a string: quoted, with " and \ escaped
DumpStr(s) == <<"\"">> \o DumpStrBody(s) \o <<"\"">>

DumpEntry(e) ==
    <<"{">>
    \o (IF e.status = NoStatus THEN <<>> ELSE <<"status", NumStr(e.status)>>)
    \o <<"submitTime", NumStr(e.submitTime), "problem", "{", "pid">>
    \o DumpStr(e.problem.pid) \o <<"title">> \o DumpStr(e.problem.title)
    \o <<"}", "}">>

RECURSIVE DumpEntries(_)
DumpEntries(es) ==
    IF es = <<>> THEN <<>> ELSE DumpEntry(Head(es)) \o DumpEntries(Tail(es))

DumpRecords(p) ==
    <<"records", "{", "result", "[">> \o DumpEntries(p.result)
    \o <<"]", "count", NumStr(p.count), "perPage", NumStr(p.perPage), "}">>

\* the JSON text of a page object, as the judge writes it
Dumps(p) ==
    IF ~p.isDict THEN <<"[", "]">>
    ELSE <<"{">>
         \o (IF p.code = NoCode THEN <<>> ELSE <<"code", NumStr(p.code)>>)
         \o (IF p.hasCD THEN <<"currentData", "{">> \o DumpRecords(p) \o <<"}">>
                         ELSE DumpRecords(p))
         \o <<"}">>

\* the token at position i of text t, "" past its end
At(t, i) == IF i >= 1 /\ i <= Len(t) THEN t[i] ELSE ""

\* whether the tokens of pat stand in t from position i on
Matches(t, i, pat) == \A k \in 1..Len(pat) : At(t, i + k - 1) = pat[k]

\* the number each number token stands for
NumberOf == [tok \in {NumStr(n) : n \in Numbers} |-> CHOOSE n \in Numbers : NumStr(n) = tok]

IsNumStr(tok) == tok \in DOMAIN NumberOf

NumOf(tok) == NumberOf[tok]

RECURSIVE LoadStrBody(_, _, _)
LoadStrBody(t, i, acc) ==
    IF i > Len(t) THEN [ok |-> FALSE, val |-> <<>>, next |-> i]
    ELSE IF t[i] = "\"" THEN [ok |-> TRUE, val |-> acc, next |-> i + 1]
    ELSE IF t[i] = "\\"
         THEN IF i + 1 > Len(t) THEN [ok |-> FALSE, val |-> <<>>, next |-> i]
              ELSE LoadStrBody(t, i + 2, Append(acc, t[i + 1]))
    ELSE LoadStrBody(t, i + 1, Append(acc, t[i]))

\* a JSON string value starting at position i
LoadStr(t, i) ==
    IF At(t, i) = "\"" THEN LoadStrBody(t, i + 1, <<>>)
    ELSE [ok |-> FALSE, val |-> <<>>, next |-> i]

BadEntry == [status |-> NoStatus, submitTime |-> 0,
             problem |-> [pid |-> <<>>, title |-> <<>>]]

\* the entry object at position i, its "pid" and "title" strings read
EntryOf(t, i, j, hasStatus, pid, title) ==
    IF /\ At(t, i) = "{"
       /\ hasStatus => IsNumStr(At(t, i + 2))
       /\ At(t, j) = "submitTime" /\ IsNumStr(At(t, j + 1))
       /\ Matches(t, j + 2, <<"problem", "{", "pid">>)
       /\ pid.ok /\ At(t, pid.next) = "title" /\ title.ok
       /\ Matches(t, title.next, <<"}", "}">>)
    THEN [ok |-> TRUE, next |-> title.next + 2,
          val |-> [status |-> IF hasStatus THEN NumOf(t[i + 2]) ELSE NoStatus,
                   submitTime |-> NumOf(t[j + 1]),
                   problem |-> [pid |-> pid.val, title |-> title.val]]]
    ELSE [ok |-> FALSE, next |-> i, val |-> BadEntry]

\* the entry object at position i, its "pid" string read
EntryAfterPid(t, i, j, hasStatus, pid) ==
    EntryOf(t, i, j, hasStatus, pid, LoadStr(t, pid.next + 1))

\* the entry object at position i, whose members start at position j
EntryFrom(t, i, j, hasStatus) == EntryAfterPid(t, i, j, hasStatus, LoadStr(t, j + 5))

\* one entry object starting at position i: "status" is optional
LoadEntry(t, i) ==
    IF At(t, i + 1) = "status" THEN EntryFrom(t, i, i + 3, TRUE)
    ELSE EntryFrom(t, i, i + 1, FALSE)

RECURSIVE LoadEntries(_, _, _)
\* the array whose elements up to e are read, e being the one at position i
EntriesWith(t, i, acc, e) ==
    IF e.ok THEN LoadEntries(t, e.next, Append(acc, e.val))
    ELSE [ok |-> FALSE, next |-> i, val |-> <<>>]

\* the elements of an array, up to its closing bracket
LoadEntries(t, i, acc) ==
    IF At(t, i) = "]" THEN [ok |-> TRUE, next |-> i + 1, val |-> acc]
    ELSE EntriesWith(t, i, acc, LoadEntry(t, i))

\* the "records" member starting at position i, its array es read
RecordsOf(t, i, es) ==
    IF /\ Matches(t, i, <<"records", "{", "result", "[">>)
       /\ es.ok
       /\ At(t, es.next) = "count" /\ IsNumStr(At(t, es.next + 1))
       /\ At(t, es.next + 2) = "perPage" /\ IsNumStr(At(t, es.next + 3))
       /\ At(t, es.next + 4) = "}"
    THEN [ok |-> TRUE, next |-> es.next + 5, result |-> es.val,
          count |-> NumOf(t[es.next + 1]), perPage |-> NumOf(t[es.next + 3])]
    ELSE [ok |-> FALSE, next |-> i, result |-> <<>>, count |-> 0, perPage |-> 0]

\* the "records" member starting at position i
LoadRecords(t, i) == RecordsOf(t, i, LoadEntries(t, i + 4, <<>>))

\* the page object of text t, its "records" member r read: r closes the
\* object, or "currentData" and then the object
ObjectOf(t, hasCode, hasCD, r, end) ==
    IF /\ At(t, 1) = "{"
       /\ hasCode => IsNumStr(At(t, 3))
       /\ r.ok
       /\ hasCD => At(t, r.next) = "}"
       /\ At(t, end) = "}" /\ end = Len(t)
    THEN [ok |-> TRUE,
          val |-> PageObject(IF hasCode THEN NumOf(t[3]) ELSE NoCode,
                             hasCD, r.result, r.count, r.perPage)]
    ELSE [ok |-> FALSE, val |-> NonDict]

\* the page object of text t whose members after "code" start at position j
ObjectFrom(t, hasCode, j) ==
    IF Matches(t, j, <<"currentData", "{">>)
    THEN ObjectOf(t, hasCode, TRUE, LoadRecords(t, j + 2),
                  LoadRecords(t, j + 2).next + 1)
    ELSE ObjectOf(t, hasCode, FALSE, LoadRecords(t, j), LoadRecords(t, j).next)

\* the value json.loads / response.json() settled on: ok is FALSE where they
\* raise JSONDecodeError
Loads(t) ==
    IF t = <<"[", "]">> THEN [ok |-> TRUE, val |-> NonDict]
    ELSE IF At(t, 2) = "code" THEN ObjectFrom(t, TRUE, 4)
    ELSE ObjectFrom(t, FALSE, 2)

(* ---------------------------------------------------------------------- *)
(* Percent-encoding and the HTML page that embeds the payload              *)
(* ---------------------------------------------------------------------- *)
\* the characters encodeURIComponent escapes, each with its escape sequence
\* (one token)
Escapes ==
    [c \in {"{", "}", "[", "]", "\"", "\\", "%", "+"} |->
        CASE c = "{" -> "%7B" [] c = "}" -> "%7D" [] c = "[" -> "%5B"
          [] c = "]" -> "%5D" [] c = "\"" -> "%22" [] c = "\\" -> "%5C"
          [] c = "%" -> "%25" [] c = "+" -> "%2B"]

\* the character each escape sequence stands for
Unescapes ==
    [x \in {Escapes[c] : c \in DOMAIN Escapes} |->
        CHOOSE c \in DOMAIN Escapes : Escapes[c] = x]

\* the judge's encoding of the payload text: an escaped character becomes its
\* escape sequence, every other token stands for itself
EncodeURIComponent(t) ==
    [i \in 1..Len(t) |-> IF t[i] \in DOMAIN Escapes THEN Escapes[t[i]] ELSE t[i]]

\* urllib.parse.unquote of line 107, as it would be if it decoded nothing
NoUnquote(t) == t

\* urllib.parse.unquote: one pass, each escape sequence to its character, all
\* else kept
Unquote(t) ==
    [i \in 1..Len(t) |-> IF t[i] \in DOMAIN Unescapes THEN Unescapes[t[i]] ELSE t[i]]

\* the HTML page carrying text t in its window._feInjection script block
HtmlPage(t) ==
    <<"<html>", "<script>", "window._feInjection", "=", "JSON.parse(",
      "decodeURIComponent(", "\"">> \o EncodeURIComponent(t)
    \o <<"\"", ")", ")", ";", "</script>", "</html>">>

\* the login page an expired session is redirected to: no payload script
LoginPage == <<"<html>", "<script>", "login", "</script>", "</html>">>

\* the least element of a set of numbers, 0 if it is empty
Least(S) == IF S = {} THEN 0 ELSE CHOOSE i \in S : \A j \in S : i <= j

\* str.find(pat, start): the first position >= start where pat stands, 0 if none
Find(t, pat, start) ==
    Least({i \in start..(Len(t) - Len(pat) + 1) : Matches(t, i, pat)})

\* the text between positions open and close, <<>> if either is 0
Between(t, open, close) ==
    IF open = 0 \/ close = 0 THEN <<>> ELSE SubSeq(t, open + 1, close - 1)

\* whether a script element opens at position o and holds needle
ScriptHolds(t, o, needle) ==
    /\ t[o] = "<script>"
    /\ \E k \in 1..Len(Between(t, o, Find(t, <<"</script>">>, o + 1))) :
          Between(t, o, Find(t, <<"</script>">>, o + 1))[k] = needle

\* the text of the script element opening at position o
ScriptAt(t, o) == Between(t, o, Find(t, <<"</script>">>, o + 1))

\* soup.find("script", string=_fe_injection_filter): the text of the first
\* script element that holds "window._feInjection", <<>> if there is none
FindScript(t) ==
    ScriptAt(t, Least({o \in 1..Len(t) : ScriptHolds(t, o, "window._feInjection")}))

\* the payload of script, sliced from position start to the end marker
\* (lines 104-107)
PayloadFrom(script, start, end) ==
    IF end = 0 THEN [ok |-> FALSE, val |-> NonDict]
    ELSE Loads(Unquote(SubSeq(script, start, end - 1)))

\* the payload of script after the start marker found at position found
\* (lines 102-104)
PayloadAfter(script, found, start) ==
    IF found = 0 THEN [ok |-> FALSE, val |-> NonDict]
    ELSE PayloadFrom(script, start, Find(script, <<"\"", ")">>, start))

\* the payload of the script element found (lines 98-107)
PayloadOf(script, marker) ==
    IF script = <<>> THEN [ok |-> FALSE, val |-> NonDict]
    ELSE PayloadAfter(script, Find(script, marker, 1),
                      Find(script, marker, 1) + Len(marker))

\* the fallback of get_records, lines 89-109: the decoded payload of the
\* script block, ok FALSE where no script, no marker or no parsable payload is
\* found
ExtractInjection(body) ==
    PayloadOf(FindScript(body), <<"decodeURIComponent(", "\"">>)

\* data after lines 84-109: response.json(), else the script fallback;
\* ok FALSE stands for data = None
DecodeBody(body) == IF Loads(body).ok THEN Loads(body) ELSE ExtractInjection(body)

(* ---------------------------------------------------------------------- *)
(* The judge's submission list and the pages it serves                     *)
(* ---------------------------------------------------------------------- *)
\* all sequences over S of length at most n
SeqUpTo(S, n) == UNION {[1..k -> S] : k \in 0..n}

\* A judge account: its submission list, the page size the judge cuts it by
\* and the total count the judge reports with every page.
Sources ==
    [entries : SeqUpTo(Entries, MaxEntries),
     pageSize : 1..MaxPageSize,
     count : 0..MaxEntries]

Min(a, b) == IF a < b THEN a ELSE b

\* records.result of page n of account src
PageResult(src, n) ==
    SubSeq(src.entries, (n - 1) * src.pageSize + 1,
           Min(n * src.pageSize, Len(src.entries)))

\* the shapes of a page object: its "code", and whether the record container
\* sits under "currentData"
Shapes == [code : {ApiOk, ApiOk + 300, NoCode}, hasCD : BOOLEAN]

\* the object the judge answers request n with, in shape sh
ServedPage(src, n, sh) ==
    PageObject(sh.code, sh.hasCD, PageResult(src, n), src.count, src.pageSize)

(* ---------------------------------------------------------------------- *)
(* Dates and times                                                         *)
(* ---------------------------------------------------------------------- *)
\* the values of the min_date argument: none, a malformed date, a calendar day
MinDates == {<<>>, <<"x">>} \cup {<<DigitStr(d)>> : d \in 1..(MaxTime \div DayLen)}

\* whether datetime.strptime(min_date, "%Y-%m-%d") accepts the string
IsDate(str) == Len(str) = 1 /\ \E d \in 0..9 : DigitStr(d) = str[1]

\* strptime(min_date).timestamp(): local midnight of the day
DateTimestamp(str) == (CHOOSE d \in 0..9 : DigitStr(d) = str[1]) * DayLen

\* min_timestamp as lines 37-44 leave it
MinTimestamp(minDate) ==
    IF minDate # <<>> /\ IsDate(minDate) THEN DateTimestamp(minDate)
    ELSE NoTimestamp

\* datetime.fromtimestamp(t).strftime("%Y-%m-%d %H:%M:%S"): date, space, time
FormatTime(t) == <<DigitStr(t \div DayLen), " ", DigitStr(t % DayLen)>>

(* ---------------------------------------------------------------------- *)
(* State                                                                   *)
(* ---------------------------------------------------------------------- *)
\* get_records
VARIABLES
    source,        \* the judge account get_records is reading
    min_date,      \* argument min_date (<<>> for None)
    min_timestamp, \* local min_timestamp
    page,          \* params["page"]
    all_records,   \* local all_records
    pc,            \* "idle", "fetch" (top of the while loop), "returned", "raised"
    stop,          \* which exit ended the loop, "" while it runs
    last           \* what the latest request ended in: "none", "json", "html",
                   \* "login", "nondict", "timeout", "error", "status"

\* __main__ of luogu_scraper.py
VARIABLES
    min_date_input, \* __main__ min_date_input
    user,           \* index of user_id in target_users
    run,            \* number of the scraper run
    mainPc,         \* "start", "call", "fetching", "exit"; "direct" outside a run
    files,          \* the per-user files of JSON_DIR, by user identifier
    fetched         \* per user, what get_records returned in the latest run

\* analyze_to_excel
VARIABLES
    json_exists,   \* os.path.exists(json_dir)
    uids_file,     \* the spreadsheet at UIDS_FILE
    uid_map,       \* local uid_map
    json_files,    \* local json_files
    file_index,    \* position of json_file in json_files
    data_frames,   \* local data_frames
    reportPc,      \* "idle", "start", "loop", "done" (returned), "raised"
    output         \* the spreadsheet at OUTPUT_FILE

fetchVars == <<source, min_date, min_timestamp, page, all_records, pc, stop, last>>

mainVars == <<min_date_input, user, run, mainPc, files, fetched>>

reportVars ==
    <<json_exists, uids_file, uid_map, json_files, file_index, data_frames,
      reportPc, output>>

vars == <<fetchVars, mainVars, reportVars>>

(* ---------------------------------------------------------------------- *)
(* get_records                                                             *)
(* ---------------------------------------------------------------------- *)
\* the record lines 172-178 build from an Accepted entry
Rec(e) ==
    [problem_id |-> e.problem.pid, problem_title |-> e.problem.title,
     status |-> "Accepted", score |-> 0, time |-> FormatTime(e.submitTime)]

\* the date filter of line 156, as it would be with <= for <
OlderOrAtCutoff(e, minTs) == minTs # NoTimestamp /\ e.submitTime <= minTs

\* the date filter of line 156
OlderThanCutoff(e, minTs) == minTs # NoTimestamp /\ e.submitTime < minTs

\* the status filter of line 165, as it would be without the test
AnyStatus(e) == TRUE

\* the status filter of line 165
IsAccepted(e) == e.status = AC

\* the for loop of lines 148-182, as it would be with continue for the return
\* of line 160: an older entry is passed over and the loop goes on
ScanPastCutoff(es, acc, minTs) ==
    [recs |-> acc \o
        [k \in 1..Len(SelectSeq(es, LAMBDA e :
                   ~OlderThanCutoff(e, minTs) /\ IsAccepted(e))) |->
            Rec(SelectSeq(es, LAMBDA e :
                   ~OlderThanCutoff(e, minTs) /\ IsAccepted(e))[k])],
     cut |-> FALSE]

RECURSIVE ScanRecords(_, _, _)
\* The for loop of lines 148-182 over the entries es of one page, acc being
\* all_records: cut is TRUE where the loop left through the return of line 160.
ScanRecords(es, acc, minTs) ==
    IF es = <<>> THEN [recs |-> acc, cut |-> FALSE]
    ELSE IF OlderThanCutoff(Head(es), minTs) THEN [recs |-> acc, cut |-> TRUE]
    ELSE IF ~IsAccepted(Head(es)) THEN ScanRecords(Tail(es), acc, minTs)
    ELSE ScanRecords(Tail(es), Append(acc, Rec(Head(es))), minTs)

\* the test of line 187, as it would be with > for >=
PastEnd(n, perPage, count) == n * perPage > count

\* the test of line 187: every record is covered after page n
ReachedEnd(n, perPage, count) == n * perPage >= count

\* the structure test of lines 128-132
ApiError(data) == data.code # ApiOk /\ ~data.hasCD

\* no request made yet
NoResponse == "none"

\* the exit a failed request would take if its exception reached the caller
FailureRaises == "raised"

\* the exit a failed request takes: every except clause of lines 194-204 and
\* the status test of line 78 break out of the loop, and line 206 returns
FailureExit == "returned"

\* an account nobody has read yet
NoSource == [entries |-> <<>>, pageSize |-> 1, count |-> 0]

\* lines 17-71: a call of get_records on account src
Enter(src, minDate) ==
    /\ source' = src
    /\ min_date' = minDate
    /\ min_timestamp' = MinTimestamp(minDate)
    /\ page' = 1
    /\ all_records' = <<>>
    /\ pc' = "fetch"
    /\ stop' = ""
    /\ last' = NoResponse

\* the caller has taken the list returned: the locals of the call are gone
Leave ==
    /\ source' = NoSource
    /\ min_date' = <<>>
    /\ min_timestamp' = NoTimestamp
    /\ page' = 1
    /\ all_records' = <<>>
    /\ pc' = "idle"
    /\ stop' = ""
    /\ last' = NoResponse

\* break (or the return of line 160), then return recs
Stopped(why, recs) ==
    [page |-> page, all_records |-> recs, pc |-> "returned", stop |-> why]

\* lines 189-192: on to the next page
Advanced(recs) ==
    [page |-> page + 1, all_records |-> recs, pc |-> "fetch", stop |-> ""]

\* lines 128-192 on the dict data, scan being what the for loop made of its
\* entries
PassOn(data, scan) ==
    IF ApiError(data) THEN Stopped("apierror", all_records)
    ELSE IF data.result = <<>> THEN Stopped("empty", all_records)
    ELSE IF scan.cut THEN Stopped("cutoff", scan.recs)
    ELSE IF ReachedEnd(page, data.perPage, data.count) THEN Stopped("end", scan.recs)
    ELSE Advanced(scan.recs)

\* lines 111-192 on what lines 84-109 decoded
PassDecoded(decoded) ==
    IF ~decoded.ok \/ ~decoded.val.isDict THEN Stopped("notdict", all_records)
    ELSE PassOn(decoded.val,
                ScanRecords(decoded.val.result, all_records, min_timestamp))

\* what one pass of the while loop on a status-200 response with the given
\* body leaves in page, all_records, pc and stop: lines 84-192
Pass(body) == PassDecoded(DecodeBody(body))

\* session.get failed or answered with a status other than 200: lines 78-82
\* and 194-199
Fail(why) ==
    /\ pc = "fetch"
    /\ pc' = FailureExit
    /\ stop' = why
    /\ last' = why
    /\ UNCHANGED <<source, min_date, min_timestamp, page, all_records>>
    /\ UNCHANGED <<mainVars, reportVars>>

Timeout == Fail("timeout")

RequestError == Fail("error")

BadStatus == Fail("status")

\* one pass of the while loop on a response with status 200
Iterate(body, resp) ==
    /\ pc = "fetch"
    /\ \E after \in {Pass(body)} :
          /\ page' = after.page
          /\ all_records' = after.all_records
          /\ pc' = after.pc
          /\ stop' = after.stop
    /\ last' = resp
    /\ UNCHANGED <<source, min_date, min_timestamp>>
    /\ UNCHANGED <<mainVars, reportVars>>

\* the judge answers with the page as JSON
ReceiveJson ==
    \E sh \in Shapes : Iterate(Dumps(ServedPage(source, page, sh)), "json")

\* the judge answers with an HTML page that embeds the page object
ReceiveHtml ==
    \E sh \in Shapes :
        Iterate(HtmlPage(Dumps(ServedPage(source, page, sh))), "html")

\* the judge answers with its login page
ReceiveLogin == Iterate(LoginPage, "login")

\* the judge answers with JSON that is not an object
ReceiveNonDict == Iterate(Dumps(NonDict), "nondict")

FetchNext ==
    \/ Timeout
    \/ RequestError
    \/ BadStatus
    \/ ReceiveJson
    \/ ReceiveHtml
    \/ ReceiveLogin
    \/ ReceiveNonDict

(* ---------------------------------------------------------------------- *)
(* Files of JSON_DIR                                                       *)
(* ---------------------------------------------------------------------- *)
\* the user identifiers a file of JSON_DIR may be named after
Uids == {"1", "2"}

\* no file of that name
NoFile == [kind |-> "none", val |-> <<>>]

\* a file holding the JSON list recs
ListFile(recs) == [kind |-> "list", val |-> recs]

\* a file json.load cannot decode
CorruptFile == [kind |-> "corrupt", val |-> <<>>]

\* a file holding a JSON object of scalars, such as {"a": 1}
ObjectFile == [kind |-> "object", val |-> <<>>]

(* ---------------------------------------------------------------------- *)
(* __main__ of luogu_scraper.py                                            *)
(* ---------------------------------------------------------------------- *)
\* most scraper runs in a behaviour
MaxRuns == 2

\* __main__ target_users (lines 237-248)
target_users == <<"1", "2">>

\* the accounts the driver reads: every entry Accepted, newest first from
\* MaxTime down, one entry a page, the true count reported
RunSources ==
    {s \in Sources :
        /\ s.pageSize = 1
        /\ s.count = Len(s.entries)
        /\ \A k \in 1..Len(s.entries) :
              /\ s.entries[k].status = AC
              /\ s.entries[k].submitTime = MaxTime + 1 - k}

NotFetched == [done |-> FALSE, recs |-> <<>>]

\* lines 265-272: the file of a user after get_records returned records
SaveFile(old, records) == IF records # <<>> THEN ListFile(records) ELSE old

\* lines 250-253: the run asks for the earliest date
StartRun ==
    /\ mainPc = "start"
    /\ \E d \in MinDates : min_date_input' = d
    /\ user' = 1
    /\ mainPc' = "call"
    /\ fetched' = [u \in Uids |-> NotFetched]
    /\ UNCHANGED <<run, files>>
    /\ UNCHANGED <<fetchVars, reportVars>>

\* lines 255-261: the call of get_records for target_users[user]
CallGetRecords ==
    /\ mainPc = "call"
    /\ \E src \in RunSources : Enter(src, min_date_input)
    /\ mainPc' = "fetching"
    /\ UNCHANGED <<min_date_input, user, run, files, fetched>>
    /\ UNCHANGED reportVars

\* lines 263-273: get_records returned; save, then on to the next user
SaveRecords ==
    /\ mainPc = "fetching"
    /\ pc = "returned"
    /\ fetched' = [fetched EXCEPT ![target_users[user]] =
                       [done |-> TRUE, recs |-> all_records]]
    /\ files' = [files EXCEPT ![target_users[user]] = SaveFile(@, all_records)]
    /\ IF user < Len(target_users)
       THEN user' = user + 1 /\ mainPc' = "call"
       ELSE user' = user /\ mainPc' = "exit"
    /\ Leave
    /\ UNCHANGED <<min_date_input, run>>
    /\ UNCHANGED reportVars

\* the operator starts the scraper again
Rerun ==
    /\ mainPc = "exit"
    /\ run < MaxRuns
    /\ run' = run + 1
    /\ mainPc' = "start"
    /\ UNCHANGED <<min_date_input, user, files, fetched>>
    /\ UNCHANGED <<fetchVars, reportVars>>

(* ---------------------------------------------------------------------- *)
(* analyze_to_excel                                                        *)
(* ---------------------------------------------------------------------- *)
\* longest record list of a file
MaxRecs == 2
\* most rows of the lookup spreadsheet
MaxLookup == 2

\* the problems the record files speak of
ReportProblems ==
    { [pid |-> <<"P1001">>, title |-> <<"a">>],
      [pid |-> <<"P1002">>, title |-> <<"b">>] }

\* the records a file may hold, as get_records builds them
ReportRecords ==
    {Rec([status |-> AC, submitTime |-> t, problem |-> p]) :
        t \in Times, p \in ReportProblems}

\* what the file of user uid may be: any file for user "1", one of a few for
\* the others
FileContents(uid) ==
    {NoFile, CorruptFile, ObjectFile, ListFile(<<>>)}
    \cup (IF uid = "1"
          THEN {ListFile(recs) : recs \in SeqUpTo(ReportRecords, MaxRecs)}
          ELSE {ListFile(<<r>>) : r \in ReportRecords})

\* the identifiers the lookup spreadsheet may list
LookupUids == {"1", "3"}

\* the name column of the lookup spreadsheet
DisplayName == [u \in LookupUids |-> IF u = "1" THEN "Ann" ELSE "Cy"]

\* the spreadsheet at UIDS_FILE: missing, without the two columns, or a list
\* of rows
UidsFiles ==
    [exists : {FALSE}, columns : {FALSE}, rows : {<<>>}]
    \cup [exists : {TRUE}, columns : {FALSE}, rows : {<<>>}]
    \cup [exists : {TRUE}, columns : {TRUE}, rows : SeqUpTo(LookupUids, MaxLookup)]

RECURSIVE ZipDict(_, _)
\* dict(zip(uid column, name column)) of utils.py line 40: one key per
\* identifier, in order of first occurrence
ZipDict(rows, acc) ==
    IF rows = <<>> THEN acc
    ELSE IF \E k \in 1..Len(acc) : acc[k].uid = Head(rows)
         THEN ZipDict(Tail(rows), acc)
    ELSE ZipDict(Tail(rows),
                 Append(acc, [uid |-> Head(rows), name |-> DisplayName[Head(rows)]]))

\* utils.load_uid_map: the mapping as a list of (uid, name) in dict order
load_uid_map(f) == IF ~f.exists \/ ~f.columns THEN <<>> ELSE ZipDict(f.rows, <<>>)

\* uid_map.get(uid, uid) of line 34
UserName(map, uid) ==
    IF \E k \in 1..Len(map) : map[k].uid = uid
    THEN map[CHOOSE k \in 1..Len(map) : map[k].uid = uid].name
    ELSE uid

\* json_files of lines 13 and 22: the names of the files, sorted
ListDir(dir) == SelectSeq(<<"1", "2">>, LAMBDA u : dir[u].kind # "none")

\* sort_values(by="time") of line 58, as it would be without the sort
KeepOrder(recs) == recs

RECURSIVE InsertByTime(_, _)
\* r put into the sorted list, behind the records that are not later
InsertByTime(r, sorted) ==
    IF sorted = <<>> THEN <<r>>
    ELSE IF StrLess(r.time, Head(sorted).time) THEN <<r>> \o sorted
    ELSE <<Head(sorted)>> \o InsertByTime(r, Tail(sorted))

RECURSIVE SortByTime(_)
\* sort_values(by="time", ascending=True) of line 58: by the time strings
SortByTime(recs) ==
    IF recs = <<>> THEN <<>>
    ELSE InsertByTime(recs[Len(recs)], SortByTime(SubSeq(recs, 1, Len(recs) - 1)))

\* drop_duplicates(subset=["problem_id"], keep="first") of line 60
DropDuplicates(recs) ==
    SelectSeq([k \in 1..Len(recs) |-> [at |-> k, rec |-> recs[k]]],
              LAMBDA x : \A j \in 1..(x.at - 1) :
                             recs[j].problem_id # x.rec.problem_id)

\* str.split(" ", n=1) of line 69: the parts before and after the first space
SplitTime(str) ==
    IF Find(str, <<" ">>, 1) = 0 THEN [date |-> str, time |-> <<>>]
    ELSE [date |-> SubSeq(str, 1, Find(str, <<" ">>, 1) - 1),
          time |-> SubSeq(str, Find(str, <<" ">>, 1) + 1, Len(str))]

\* lines 69-81: the detail row of the k-th record kept
DetailRow(k, uid, name, r) ==
    [seq |-> k, UID |-> uid, name |-> name, pid |-> r.problem_id,
     title |-> r.problem_title, date |-> SplitTime(r.time).date,
     time |-> SplitTime(r.time).time]

\* lines 69-81 on the records kept
FrameOf(uid, name, kept) ==
    [k \in 1..Len(kept) |-> DetailRow(k, uid, name, kept[k].rec)]

\* lines 47-81: final_df of the file of uid holding the list data
BuildFrameOf(uid, name, data) == FrameOf(uid, name, DropDuplicates(SortByTime(data)))

RECURSIVE Concat(_)
\* pd.concat(data_frames) of line 91
Concat(frames) == IF frames = <<>> THEN <<>> ELSE Head(frames) \o Concat(Tail(frames))

\* ac_counts.get(uid, 0) of lines 115 and 120
AcCount(result, uid) == Cardinality({k \in 1..Len(result) : result[k].UID = uid})

\* summary_data of lines 117-121
SummaryData(map, result) ==
    [k \in 1..Len(map) |->
        [UID |-> map[k].uid, name |-> map[k].name, count |-> AcCount(result, map[k].uid)]]

RECURSIVE InsertByCount(_, _)
InsertByCount(r, sorted) ==
    IF sorted = <<>> THEN <<r>>
    ELSE IF r.count > Head(sorted).count THEN <<r>> \o sorted
    ELSE <<Head(sorted)>> \o InsertByCount(r, Tail(sorted))

RECURSIVE SortByCount(_)
\* sort_values(by="AC数量", ascending=False) of line 126
SortByCount(rows) ==
    IF rows = <<>> THEN <<>>
    ELSE InsertByCount(rows[Len(rows)], SortByCount(SubSeq(rows, 1, Len(rows) - 1)))

\* line 129: the sequence number column
Numbered(rows) ==
    [k \in 1..Len(rows) |->
        [seq |-> k, UID |-> rows[k].UID, name |-> rows[k].name, count |-> rows[k].count]]

\* lines 123-137: the summary sheet
SummarySheet(map, result) == Numbered(SortByCount(SummaryData(map, result)))

\* no spreadsheet at OUTPUT_FILE
NoOutput == [written |-> FALSE, detail |-> <<>>, hasSummary |-> FALSE, summary |-> <<>>]

\* the file under position file_index of json_files
CurrentFile == files[json_files[file_index]]

InLoop == reportPc = "loop" /\ file_index <= Len(json_files)

\* lines 9-11: json_dir does not exist
DirectoryMissing ==
    /\ reportPc = "start"
    /\ ~json_exists
    /\ reportPc' = "done"
    /\ UNCHANGED <<json_exists, uids_file, uid_map, json_files, file_index,
                   data_frames, output>>
    /\ UNCHANGED <<fetchVars, mainVars>>

\* lines 13-17: json_dir holds no .json file
NoJsonFiles ==
    /\ reportPc = "start"
    /\ json_exists
    /\ ListDir(files) = <<>>
    /\ reportPc' = "done"
    /\ UNCHANGED <<json_exists, uids_file, uid_map, json_files, file_index,
                   data_frames, output>>
    /\ UNCHANGED <<fetchVars, mainVars>>

\* lines 13-27: the files are listed and sorted, the lookup is loaded
ListFiles ==
    /\ reportPc = "start"
    /\ json_exists
    /\ ListDir(files) # <<>>
    /\ json_files' = ListDir(files)
    /\ uid_map' = load_uid_map(uids_file)
    /\ file_index' = 1
    /\ data_frames' = <<>>
    /\ reportPc' = "loop"
    /\ UNCHANGED <<json_exists, uids_file, output>>
    /\ UNCHANGED <<fetchVars, mainVars>>

\* the loop goes on to the next file
NextFile ==
    /\ file_index' = file_index + 1
    /\ UNCHANGED <<json_exists, uids_file, uid_map, json_files, reportPc, output>>
    /\ UNCHANGED <<fetchVars, mainVars>>

\* lines 36-41: json.load raises, the file is skipped
ReadError ==
    /\ InLoop
    /\ CurrentFile.kind = "corrupt"
    /\ UNCHANGED data_frames
    /\ NextFile

\* lines 43-44: the file holds nothing, it is skipped
EmptyData ==
    /\ InLoop
    /\ CurrentFile.kind = "list"
    /\ CurrentFile.val = <<>>
    /\ UNCHANGED data_frames
    /\ NextFile

\* lines 47-82: the file holds records, its frame is appended
BuildFrame ==
    /\ InLoop
    /\ CurrentFile.kind = "list"
    /\ CurrentFile.val # <<>>
    /\ data_frames' =
           Append(data_frames,
                  BuildFrameOf(json_files[file_index],
                               UserName(uid_map, json_files[file_index]),
                               CurrentFile.val))
    /\ NextFile

\* line 47: pd.DataFrame raises ValueError on an object of scalars, and
\* nothing catches it
FrameError ==
    /\ InLoop
    /\ CurrentFile.kind = "object"
    /\ reportPc' = "raised"
    /\ UNCHANGED <<json_exists, uids_file, uid_map, json_files, file_index,
                   data_frames, output>>
    /\ UNCHANGED <<fetchVars, mainVars>>

AfterLoop == reportPc = "loop" /\ file_index > Len(json_files)

\* lines 84-140: both sheets are written
WriteExcel ==
    /\ AfterLoop
    /\ uid_map # <<>>
    /\ output' = [written |-> TRUE, detail |-> Concat(data_frames),
                  hasSummary |-> TRUE,
                  summary |-> SummarySheet(uid_map, Concat(data_frames))]
    /\ reportPc' = "done"
    /\ UNCHANGED <<json_exists, uids_file, uid_map, json_files, file_index, data_frames>>
    /\ UNCHANGED <<fetchVars, mainVars>>

\* lines 84-126 and 143-144: with an empty lookup summary_df has no column,
\* sort_values raises KeyError, the writer saves the detail sheet alone
SummaryError ==
    /\ AfterLoop
    /\ uid_map = <<>>
    /\ output' = [written |-> TRUE, detail |-> Concat(data_frames),
                  hasSummary |-> FALSE, summary |-> <<>>]
    /\ reportPc' = "done"
    /\ UNCHANGED <<json_exists, uids_file, uid_map, json_files, file_index, data_frames>>
    /\ UNCHANGED <<fetchVars, mainVars>>

(* ---------------------------------------------------------------------- *)
(* Specifications                                                          *)
(* ---------------------------------------------------------------------- *)
FetchIdle ==
    /\ source = NoSource
    /\ min_date = <<>>
    /\ min_timestamp = NoTimestamp
    /\ page = 1
    /\ all_records = <<>>
    /\ pc = "idle"
    /\ stop = ""
    /\ last = NoResponse

MainIdle ==
    /\ min_date_input = <<>>
    /\ user = 0
    /\ run = 0
    /\ mainPc = "direct"
    /\ files = [u \in Uids |-> NoFile]
    /\ fetched = [u \in Uids |-> NotFetched]

ReportIdle ==
    /\ json_exists = FALSE
    /\ uids_file = [exists |-> FALSE, columns |-> FALSE, rows |-> <<>>]
    /\ uid_map = <<>>
    /\ json_files = <<>>
    /\ file_index = 0
    /\ data_frames = <<>>
    /\ reportPc = "idle"
    /\ output = NoOutput

\* a direct call get_records(user_id, cookies, min_date)
Init ==
    /\ source \in Sources
    /\ min_date \in MinDates
    /\ min_timestamp = MinTimestamp(min_date)
    /\ page = 1
    /\ all_records = <<>>
    /\ pc = "fetch"
    /\ stop = ""
    /\ last = NoResponse
    /\ MainIdle
    /\ ReportIdle

Next == FetchNext

Spec == Init /\ [][Next]_vars

\* the scraper is started on an empty JSON_DIR
InitRun ==
    /\ FetchIdle
    /\ min_date_input = <<>>
    /\ user = 0
    /\ run = 1
    /\ mainPc = "start"
    /\ files = [u \in Uids |-> NoFile]
    /\ fetched = [u \in Uids |-> NotFetched]
    /\ ReportIdle

NextRun ==
    \/ StartRun
    \/ CallGetRecords
    \/ FetchNext
    \/ SaveRecords
    \/ Rerun

SpecRun == InitRun /\ [][NextRun]_vars

\* analyze_to_excel(JSON_DIR, OUTPUT_FILE) is called
InitReport ==
    /\ FetchIdle
    /\ min_date_input = <<>>
    /\ user = 0
    /\ run = 0
    /\ mainPc = "direct"
    /\ fetched = [u \in Uids |-> NotFetched]
    /\ json_exists \in BOOLEAN
    /\ files \in [Uids -> UNION {FileContents(u) : u \in Uids}]
    /\ \A u \in Uids : files[u] \in FileContents(u)
    /\ ~json_exists => \A u \in Uids : files[u] = NoFile
    /\ uids_file \in UidsFiles
    /\ uid_map = <<>>
    /\ json_files = <<>>
    /\ file_index = 0
    /\ data_frames = <<>>
    /\ reportPc = "start"
    /\ output = NoOutput

NextReport ==
    \/ DirectoryMissing
    \/ NoJsonFiles
    \/ ListFiles
    \/ ReadError
    \/ EmptyData
    \/ BuildFrame
    \/ FrameError
    \/ WriteExcel
    \/ SummaryError

SpecReport == InitReport /\ [][NextReport]_vars

(* ---------------------------------------------------------------------- *)
(* Properties                                                              *)
(* ---------------------------------------------------------------------- *)
\* the exits of get_records that a failed request or an unusable body takes
RequestFailures == {"timeout", "error", "status", "notdict"}

\* the entries are newest first
Descending(es) ==
    \A k \in 1..(Len(es) - 1) : es[k].submitTime >= es[k + 1].submitTime

\* the records of the Accepted entries of es that are not older than minTs
RecordsSince(es, minTs) ==
    LET keep == SelectSeq(es, LAMBDA e : e.status = AC /\ e.submitTime >= minTs)
    IN [k \in 1..Len(keep) |-> Rec(keep[k])]

IsPrefix(a, b) == Len(a) <= Len(b) /\ SubSeq(b, 1, Len(a)) = a

\* a / b rounded up
Ceil(a, b) == (a + b - 1) \div b

Max(a, b) == IF a > b THEN a ELSE b

\* get_records has returned on a valid min_date and a newest-first source,
\* no request having failed and no body having been unusable
CutoffCase ==
    /\ pc = "returned"
    /\ IsDate(min_date)
    /\ Descending(source.entries)
    /\ stop \notin RequestFailures \cup {"apierror"}

\* no record is older than midnight of min_date, and every Accepted entry at
\* or after it is returned
CutoffHonoured ==
    /\ \A k \in 1..Len(all_records) : \A t \in Times :
          all_records[k].time = FormatTime(t) => t >= DateTimestamp(min_date)
    /\ all_records = RecordsSince(source.entries, DateTimestamp(min_date))

C2_StatusFilter == IsPrefix(all_records, RecordsSince(source.entries, 0))

\* C2: an HTML page with an entry that is not Accepted has been processed, and
\* records have been kept
C2_Witness ==
    /\ last = "html"
    /\ all_records # <<>>
    /\ stop \in {"", "end"}
    /\ \E k \in 1..Len(source.entries) :
          /\ k <= source.pageSize * (IF pc = "fetch" THEN page - 1 ELSE page)
          /\ source.entries[k].status # AC

\* C6: in every state of the fetch loop and for every page payload the judge
\* may serve there, the response that carries the payload URL-encoded in the
\* window._feInjection script block decodes to a dict and leaves get_records
\* where the same payload delivered as JSON leaves it: same next page, same
\* records, same exit.
C6_FallbackEquivalent ==
    pc = "fetch" =>
        \A sh \in Shapes :
            \A body \in {Dumps(ServedPage(source, page, sh))} :
                \A fallback \in {Pass(HtmlPage(body))} :
                    /\ ~Loads(HtmlPage(body)).ok
                    /\ fallback.stop # "notdict"
                    /\ fallback = Pass(body)

\* C6: an HTML response has been processed, records were taken from it and the
\* loop went on to the next page
C6_Witness ==
    /\ last = "html"
    /\ pc = "fetch"
    /\ page > 1
    /\ all_records # <<>>

\* C10 as stated: against a source reporting a fixed total count and a
\* positive page size get_records issues at most ceil(count / page size)
\* requests.
C10_RequestBoundAsStated ==
    pc = "returned" /\ stop \notin RequestFailures \cup {"apierror"}
        => page <= Ceil(source.count, source.pageSize)

\* C10 amended: pages are requested in increasing order, one request a page;
\* after page N is processed without an earlier stop the loop ends if N times
\* the page size reaches the count and goes on to page N + 1 otherwise; so at
\* most max(1, ceil(count / page size)) requests are issued.
C10_PaginationRule ==
    [][/\ page' \in {page, page + 1}
       /\ page' = page + 1 => pc' = "fetch" /\ page * source.pageSize < source.count
       /\ stop' = "end" => page * source.pageSize >= source.count
       /\ (last' \in {"json", "html"}
           /\ stop' \notin {"notdict", "apierror", "empty", "cutoff"})
          => (pc' = "returned" <=> page * source.pageSize >= source.count)
       /\ page' <= Max(1, Ceil(source.count, source.pageSize))]_vars

\* C10: the fetch ended by the count after more than one request, having
\* issued exactly ceil(count / page size) of them
C10_Witness ==
    /\ pc = "returned"
    /\ stop = "end"
    /\ page > 1
    /\ page = Ceil(source.count, source.pageSize)

\* the records of the Accepted entries on pages 1..n of account src
RecordsOfPages(src, n) ==
    RecordsSince(SubSeq(src.entries, 1, Min(n * src.pageSize, Len(src.entries))), 0)

\* C7: a request for page N that ends in a timeout, a transport error, a
\* non-200 status or a body no strategy decodes to a dict makes get_records
\* return (nothing is raised) exactly the records of pages 1..N-1, no further
\* page being requested; the driver takes that list and goes on to the next
\* user.
C7_FailureContained ==
    [][/\ pc' # "raised"
       /\ (pc = "fetch" /\ stop' \in RequestFailures)
          => /\ pc' = "returned"
             /\ page' = page
             /\ all_records' = all_records
             /\ all_records' = RecordsOfPages(source, page - 1)
       /\ (pc = "returned" /\ stop \in RequestFailures)
          => /\ fetched'[target_users[user]] = [done |-> TRUE, recs |-> all_records]
             /\ pc' = "idle"
             /\ IF user < Len(target_users)
                THEN user' = user + 1 /\ mainPc' = "call"
                ELSE mainPc' = "exit"]_vars

\* C7: the request for page 2 of the first user failed, get_records returned
\* the record of page 1 to the driver
C7_Witness ==
    /\ mainPc = "fetching"
    /\ user = 1
    /\ pc = "returned"
    /\ stop \in RequestFailures
    /\ page = 2
    /\ all_records # <<>>

\* C8 as stated: after any sequence of runs, the file of a user fetched in the
\* latest run holds exactly the list that run's get_records returned, whatever
\* its length; no record of an older run survives.
C8_FileHoldsLatestResult ==
    \A u \in Uids :
        fetched[u].done /\ files[u].kind = "list" => files[u].val = fetched[u].recs

\* the frame built from the file of user uid holds one row for each
\* problem_id of the file, with the date and time of its earliest record
FrameDeduplicated(frame, recs) ==
    /\ \A a, b \in 1..Len(frame) : frame[a].pid = frame[b].pid => a = b
    /\ {frame[a].pid : a \in 1..Len(frame)}
           = {recs[k].problem_id : k \in 1..Len(recs)}
    /\ \A a \in 1..Len(frame) : \E t \in Times :
          /\ \E k \in 1..Len(recs) :
                recs[k].problem_id = frame[a].pid /\ recs[k].time = FormatTime(t)
          /\ \A k \in 1..Len(recs) : \A t2 \in Times :
                recs[k].problem_id = frame[a].pid /\ recs[k].time = FormatTime(t2)
                    => t <= t2
          /\ frame[a].date = <<DigitStr(t \div DayLen)>>
          /\ frame[a].time = <<DigitStr(t % DayLen)>>

\* C3: for every per-user record set, the detail rows built from it hold
\* exactly one row for each distinct problem_id, carrying the AC date and AC
\* time of the earliest record of that problem_id.
C3_Deduplicated ==
    \A f \in 1..Len(data_frames) :
        FrameDeduplicated(data_frames[f], files[data_frames[f][1].UID].val)

\* C3: a frame was built from a file holding two records of one problem, the
\* later one first
C3_Witness ==
    \E f \in 1..Len(data_frames) :
        LET recs == files[data_frames[f][1].UID].val
        IN /\ Len(recs) = 2
           /\ recs[1].problem_id = recs[2].problem_id
           /\ recs[1].time # recs[2].time
           /\ recs[2].time = FormatTime(1)
           /\ Len(data_frames[f]) = 1

\* the identifiers of the lookup spreadsheet
LookupKeys ==
    IF uids_file.exists /\ uids_file.columns
    THEN {uids_file.rows[k] : k \in 1..Len(uids_file.rows)}
    ELSE {}

\* the summary sheet holds one row for each identifier of the lookup, with
\* the number of detail rows of that identifier
SummaryComplete ==
    /\ output.hasSummary
    /\ Len(output.summary) = Cardinality(LookupKeys)
    /\ \A uid \in LookupKeys : \E k \in 1..Len(output.summary) :
          /\ output.summary[k].UID = uid
          /\ output.summary[k].count
                 = Cardinality({d \in 1..Len(output.detail) : output.detail[d].UID = uid})

\* C4 as stated: for every lookup, the empty one included, and every set of
\* record files, the summary sheet analyze_to_excel writes has exactly one row
\* for each identifier of the lookup, with the number of its detail rows.
C4_SummaryComplete == reportPc = "done" /\ output.written => SummaryComplete

\* the directory exists and holds no record set: no file, or only files that
\* are skipped
NoRecordSets ==
    /\ json_exists
    /\ \A u \in Uids : files[u] \in {NoFile, CorruptFile, ListFile(<<>>)}

\* C5 as stated: when the directory holds zero user record sets,
\* analyze_to_excel still writes the spreadsheet, with an empty detail sheet
\* and a summary sheet listing every lookup entry with count zero, and raises
\* nothing.
C5_EmptyInputStable ==
    /\ NoRecordSets => reportPc # "raised"
    /\ NoRecordSets /\ reportPc = "done"
       => /\ output.written
          /\ output.detail = <<>>
          /\ SummaryComplete

\* C9 as stated: a file that fails to decode, decodes to an empty set, or
\* decodes to content that is not a list of record objects causes only that
\* user to be skipped: analyze_to_excel does not abort, and every other user's
\* detail rows and the summary sheet are still written.
C9_FailuresIsolated ==
    /\ reportPc # "raised"
    /\ reportPc = "done" /\ json_files # <<>>
       => /\ output.written
          /\ output.hasSummary
          /\ \A u \in Uids :
                files[u].kind = "list" /\ files[u].val # <<>>
                    => \E d \in 1..Len(output.detail) : output.detail[d].UID = u

\* C11 as stated: a decoded page object that is a dict and lacks currentData
\* is read as the record container whatever its other fields, a missing or
\* non-200 code included, instead of stopping the fetch: where the structure
\* test of lines 128-132 has ended the fetch, the list returned still holds
\* what the for loop makes of the records.result of that page.
C11_ContainerFallback ==
    stop = "apierror" =>
        all_records =
            ScanRecords(PageResult(source, page), all_records, min_timestamp).recs

\* the position in es of the first entry earlier than the cutoff, 0 if none
FirstOlder(es, minTs) ==
    Least({k \in 1..Len(es) : minTs # NoTimestamp /\ es[k].submitTime < minTs})

\* get_records is about to process, from a response that decodes to a page
\* object passing the structure test, a page with an entry earlier than the
\* cutoff
MeetsOlder ==
    /\ pc = "fetch"
    /\ last' \in {"json", "html"}
    /\ stop' \notin {"notdict", "apierror"}
    /\ FirstOlder(PageResult(source, page), min_timestamp) > 0

\* C12: with a cutoff set, processing a page N that holds an entry earlier
\* than the cutoff makes get_records return at once: the list returned is the
\* list accumulated before page N plus the records of the Accepted entries of
\* page N that stand before the first such entry; no entry after it is
\* appended, even an Accepted one at or after the cutoff; page N stays the
\* last page requested, and nothing changes once the call has returned.
C12_CutoffTerminal ==
    [][/\ MeetsOlder =>
            /\ pc' = "returned"
            /\ stop' = "cutoff"
            /\ page' = page
            /\ all_records' = all_records \o
                   RecordsSince(
                       SubSeq(PageResult(source, page), 1,
                              FirstOlder(PageResult(source, page),
                                         min_timestamp) - 1), 0)
       /\ stop' = "cutoff" => MeetsOlder
       /\ stop = "cutoff" => UNCHANGED fetchVars]_vars

\* C12: the fetch returned through the cutoff on a page where the entry after
\* the first older one is Accepted and not earlier than the cutoff, and that
\* entry is not in the list returned
C12_Witness ==
    /\ stop = "cutoff"
    /\ pc = "returned"
    /\ \E k \in 1..(Len(PageResult(source, page)) - 1) :
          /\ k = FirstOlder(PageResult(source, page), min_timestamp)
          /\ PageResult(source, page)[k + 1].status = AC
          /\ PageResult(source, page)[k + 1].submitTime >= min_timestamp
    /\ all_records =
           RecordsSince(
               SubSeq(source.entries, 1,
                      (page - 1) * source.pageSize
                          + FirstOlder(PageResult(source, page), min_timestamp)
                          - 1), 0)

====
